---- MODULE Spec2Model ----
(***************************************************************************)
(* Model of the move-cli command dispatcher                                *)
(* (language/tools/move-cli/src/lib.rs).                                   *)
(*                                                                         *)
(* The embedding application owns the runtime data (natives, cost table,   *)
(* error map).  It either calls move_cli, which parses the process         *)
(* arguments and hands the outcome to run_cli, or calls run_cli directly   *)
(* with already built Move options and a Command.  run_cli matches on the  *)
(* command and calls one collaborator; the collaborators are opaque: what  *)
(* is recorded of a call is its entry point, its receiver and its          *)
(* arguments, and its result is any value of Results.                      *)
(*                                                                         *)
(* Option<T> is a sequence of length at most one: None is <<>>, Some(x)    *)
(* is <<x>>.  The arguments of a call are a record whose domain is the     *)
(* set of parameters the entry point was given.                            *)
(***************************************************************************)
EXTENDS Integers, Sequences, FiniteSets, TLC

VARIABLES
    pc,                 \* position of the call chain
    via,                \* entry point of the current run: move_cli or run_cli
    argv,               \* process arguments read by MoveCLI::parse()
    natives,            \* runtime data owned by the embedding application
    cost_table,
    error_descriptions,
    move_args,          \* parameter move_args of run_cli
    cmd,                \* parameter cmd of run_cli
    calls,              \* collaborator calls of the current run, in order
    returns,            \* results the collaborators of the current run returned
    result,             \* Option: the value the current run returned
    exit,               \* how the process ended, "running" while it has not
    ncalls,             \* number of run_cli calls that have returned
    seen                \* Option: one earlier run_cli call (inputs, calls, result)

vars == <<pc, via, argv, natives, cost_table, error_descriptions, move_args,
          cmd, calls, returns, result, exit, ncalls, seen>>

----------------------------------------------------------------------------
(* Bounds and input sets *)

MaxCalls == 2

None == <<>>
Some(x) == <<x>>

Paths == {"/tmp/pkg"}
BuildConfigs == {"default", "dev"}
VerboseFlags == {TRUE}
GivenStorageDirs == {"db"}
LeafOptions == {"opts"}
SandboxCommands == {"sandbox_sub"}
ExperimentalCommands == {"experimental_sub"}
RuntimeData == {[natives |-> "natives_a", cost_table |-> "cost_a", error_descriptions |-> "errmap_a"],
                [natives |-> "natives_b", cost_table |-> "cost_b", error_descriptions |-> "errmap_b"]}

Ok == "Ok"
Errors == {"Err(sentinel_1)", "Err(sentinel_2)"}
Results == {Ok} \cup Errors

----------------------------------------------------------------------------
(* Data model *)

DEFAULT_STORAGE_DIR == "storage"
DEFAULT_BUILD_DIR == "."

\* struct Move
Move == [package_path : {None} \cup {Some(p) : p \in Paths},
         verbose : VerboseFlags,
         build_config : BuildConfigs]

LeafVariants == {"Build", "Coverage", "Disassemble", "Errmap", "Info", "New", "Prove", "Test"}
NestedVariants == {"Sandbox", "Experimental"}

\* enum Command: the variants, each with the type of its payload
CommandVariants == LeafVariants \cup NestedVariants

PayloadType(tag) ==
    CASE tag = "Sandbox" -> "SandboxCommand"
      [] tag = "Experimental" -> "ExperimentalCommand"
      [] OTHER -> tag

\* the values of enum Command
Command ==
    [tag : LeafVariants, c : LeafOptions]
    \cup [tag : {"Sandbox"}, storage_dir : GivenStorageDirs \cup {DEFAULT_STORAGE_DIR}, cmd : SandboxCommands]
    \cup [tag : {"Experimental"}, storage_dir : GivenStorageDirs \cup {DEFAULT_STORAGE_DIR}, cmd : ExperimentalCommands]

NoArgs == [package_path |-> None, verbose |-> FALSE, build_config |-> "default"]
NoCmd == [tag |-> "none"]
NoArgv == [subcommand |-> None]

----------------------------------------------------------------------------
(* Argument vectors and MoveCLI::parse() *)

\* the name clap derives for each variant of Command
SubcommandName(tag) ==
    CASE tag = "Build" -> "build"
      [] tag = "Coverage" -> "coverage"
      [] tag = "Disassemble" -> "disassemble"
      [] tag = "Errmap" -> "errmap"
      [] tag = "Info" -> "info"
      [] tag = "New" -> "new"
      [] tag = "Prove" -> "prove"
      [] tag = "Test" -> "test"
      [] tag = "Sandbox" -> "sandbox"
      [] tag = "Experimental" -> "experimental"

UnknownSubcommands == {"bogus"}

\* what the process was started with: the global flags, the subcommand word
\* (None when it is missing), --storage-dir and the nested subcommand word
ArgVectors ==
    LET globals == [path : {None} \cup {Some(p) : p \in Paths},
                    v : VerboseFlags,
                    build_flags : BuildConfigs]
        leaf == {[path |-> g.path, v |-> g.v, build_flags |-> g.build_flags,
                  subcommand |-> s, storage_dir |-> None, nested |-> None] :
                    g \in globals,
                    s \in {None} \cup {Some(n) : n \in {SubcommandName(t) : t \in LeafVariants} \cup UnknownSubcommands}}
        nested == {[path |-> g.path, v |-> g.v, build_flags |-> g.build_flags,
                    subcommand |-> Some(SubcommandName(t)), storage_dir |-> d, nested |-> n] :
                    g \in globals, t \in NestedVariants,
                    d \in {None} \cup {Some(x) : x \in GivenStorageDirs},
                    n \in {None, Some("sub")}}
    IN leaf \cup nested

ParseFailure == [ok |-> FALSE]

\* ParseStorageDir, defaulting to the build directory
ParseStorageDirBuildDir(a) ==
    IF a.storage_dir = None THEN DEFAULT_BUILD_DIR ELSE a.storage_dir[1]

\* default_value = DEFAULT_STORAGE_DIR of the storage_dir fields
ParseStorageDir(a) ==
    IF a.storage_dir = None THEN DEFAULT_STORAGE_DIR ELSE a.storage_dir[1]

ParseMove(a) ==
    [package_path |-> a.path, verbose |-> a.v, build_config |-> a.build_flags]

ParseCommand(a) ==
    LET name == a.subcommand[1]
        tag == CHOOSE t \in CommandVariants : SubcommandName(t) = name
    IN CASE tag \in LeafVariants ->
              [tag |-> tag, c |-> CHOOSE o \in LeafOptions : TRUE]
         [] tag = "Sandbox" ->
              [tag |-> tag, storage_dir |-> ParseStorageDir(a),
               cmd |-> CHOOSE s \in SandboxCommands : TRUE]
         [] tag = "Experimental" ->
              [tag |-> tag, storage_dir |-> ParseStorageDir(a),
               cmd |-> CHOOSE s \in ExperimentalCommands : TRUE]

\* MoveCLI::parse(): the parsed MoveCLI, or a failure when the subcommand is
\* missing or unknown, or the nested subcommand of sandbox/experimental is missing
Parse(a) ==
    IF \/ a.subcommand = None
       \/ a.subcommand[1] \notin {SubcommandName(t) : t \in CommandVariants}
       \/ /\ a.subcommand[1] \in {SubcommandName(t) : t \in NestedVariants}
          /\ a.nested = None
    THEN ParseFailure
    ELSE [ok |-> TRUE, move_args |-> ParseMove(a), cmd |-> ParseCommand(a)]

----------------------------------------------------------------------------
(* run_cli *)

Target(type, method) == [type |-> type, method |-> method]

\* Execute, handing the natives to every leaf collaborator
ExecuteWithNatives(n, ct, ed, m, c) ==
    [target |-> Target(PayloadType(c.tag), "execute"), receiver |-> c.c,
     args |-> [package_path |-> m.package_path, build_config |-> m.build_config,
               natives |-> n]]

\* Execute, resolving an absent package_path to the default directory
ExecuteDefaultPath(n, ct, ed, m, c) ==
    [target |-> Target(PayloadType(c.tag), "execute"), receiver |-> c.c,
     args |-> [package_path |-> IF m.package_path = None
                                THEN Some(DEFAULT_BUILD_DIR) ELSE m.package_path,
               build_config |-> m.build_config]]

\* Execute, every arm calling the entry point of Build
ExecuteBuildOnly(n, ct, ed, m, c) ==
    [target |-> Target("Build", "execute"), receiver |-> c.c,
     args |-> [package_path |-> m.package_path, build_config |-> m.build_config]]

\* Execute, the build_config consumed by the first call of the process
ExecuteStale(n, ct, ed, m, c) ==
    [target |-> Target(PayloadType(c.tag), "execute"), receiver |-> c.c,
     args |-> [package_path |-> m.package_path,
               build_config |-> IF ncalls > 0 THEN "default" ELSE m.build_config]]

\* c.execute(move_args.package_path, move_args.build_config)
Execute(n, ct, ed, m, c) ==
    [target |-> Target(PayloadType(c.tag), "execute"), receiver |-> c.c,
     args |-> [package_path |-> m.package_path, build_config |-> m.build_config]]

\* ExecuteNew, handing over the build_config as the other leaf arms do
ExecuteNewWithConfig(n, ct, ed, m, c) ==
    [target |-> Target("New", "execute_with_defaults"), receiver |-> c.c,
     args |-> [package_path |-> m.package_path, build_config |-> m.build_config]]

\* c.execute_with_defaults(move_args.package_path)
ExecuteNew(n, ct, ed, m, c) ==
    [target |-> Target("New", "execute_with_defaults"), receiver |-> c.c,
     args |-> [package_path |-> m.package_path]]

\* c.execute(move_args.package_path, move_args.build_config, natives)
ExecuteTest(n, ct, ed, m, c) ==
    [target |-> Target("Test", "execute"), receiver |-> c.c,
     args |-> [package_path |-> m.package_path, build_config |-> m.build_config,
               natives |-> n]]

\* HandleSandbox, building a fresh cost table instead of forwarding the given one
HandleSandboxFreshCost(n, ct, ed, m, c) ==
    [target |-> Target("SandboxCommand", "handle_command"), receiver |-> c.cmd,
     args |-> [natives |-> n, cost_table |-> "cost_fresh", error_descriptions |-> ed,
               move_args |-> m, storage_dir |-> c.storage_dir]]

\* cmd.handle_command(natives, cost_table, error_descriptions, &move_args, &storage_dir)
HandleSandbox(n, ct, ed, m, c) ==
    [target |-> Target("SandboxCommand", "handle_command"), receiver |-> c.cmd,
     args |-> [natives |-> n, cost_table |-> ct, error_descriptions |-> ed,
               move_args |-> m, storage_dir |-> c.storage_dir]]

\* cmd.handle_command(&move_args, &storage_dir)
HandleExperimental(n, ct, ed, m, c) ==
    [target |-> Target("ExperimentalCommand", "handle_command"), receiver |-> c.cmd,
     args |-> [move_args |-> m, storage_dir |-> c.storage_dir]]

\* the match of run_cli: the collaborator call of the arm cmd selects
RunCliMatch(n, ct, ed, m, c) ==
    CASE c.tag = "Build" -> Execute(n, ct, ed, m, c)
      [] c.tag = "Coverage" -> Execute(n, ct, ed, m, c)
      [] c.tag = "Disassemble" -> Execute(n, ct, ed, m, c)
      [] c.tag = "Errmap" -> Execute(n, ct, ed, m, c)
      [] c.tag = "Info" -> Execute(n, ct, ed, m, c)
      [] c.tag = "New" -> ExecuteNew(n, ct, ed, m, c)
      [] c.tag = "Prove" -> Execute(n, ct, ed, m, c)
      [] c.tag = "Test" -> ExecuteTest(n, ct, ed, m, c)
      [] c.tag = "Sandbox" -> HandleSandbox(n, ct, ed, m, c)
      [] c.tag = "Experimental" -> HandleExperimental(n, ct, ed, m, c)

\* Propagate, an error wrapped into one of the dispatcher's own
PropagateWrapped(r) == IF r = Ok THEN Ok ELSE "Err(dispatch failed)"

\* the value of the match is the value of run_cli
Propagate(r) == r

----------------------------------------------------------------------------
(* The state machine *)

Init ==
    /\ pc = "start"
    /\ via = "none"
    /\ argv = NoArgv
    /\ \E d \in RuntimeData :
          /\ natives = d.natives
          /\ cost_table = d.cost_table
          /\ error_descriptions = d.error_descriptions
    /\ move_args = NoArgs
    /\ cmd = NoCmd
    /\ calls = <<>>
    /\ returns = <<>>
    /\ result = None
    /\ exit = "running"
    /\ ncalls = 0
    /\ seen = None

\* the embedding application calls move_cli; the process arguments are a
MoveCliEnter(a) ==
    /\ pc \in {"start", "returned"}
    /\ ncalls < MaxCalls
    /\ pc' = "parse"
    /\ via' = "move_cli"
    /\ argv' = a
    /\ move_args' = NoArgs
    /\ cmd' = NoCmd
    /\ calls' = <<>>
    /\ returns' = <<>>
    /\ result' = None
    /\ UNCHANGED <<natives, cost_table, error_descriptions, exit, ncalls, seen>>

\* MoveCliParse, a failed parse falling back to the info command
MoveCliParseLenient ==
    /\ pc = "parse"
    /\ LET args == Parse(argv)
       IN /\ pc' = "dispatch"
          /\ move_args' = IF args.ok THEN args.move_args ELSE NoArgs
          /\ cmd' = IF args.ok THEN args.cmd
                    ELSE [tag |-> "Info", c |-> CHOOSE o \in LeafOptions : TRUE]
          /\ exit' = exit
    /\ UNCHANGED <<via, argv, natives, cost_table, error_descriptions, calls,
                   returns, result, ncalls, seen>>

\* let args = MoveCLI::parse(): on a failure clap reports the usage error and
\* ends the process; otherwise run_cli is entered with the parsed parts
MoveCliParse ==
    /\ pc = "parse"
    /\ LET args == Parse(argv)
       IN IF args.ok
          THEN /\ pc' = "dispatch"
               /\ move_args' = args.move_args
               /\ cmd' = args.cmd
               /\ exit' = exit
          ELSE /\ pc' = "exited"
               /\ exit' = "usage_error"
               /\ UNCHANGED <<move_args, cmd>>
    /\ UNCHANGED <<via, argv, natives, cost_table, error_descriptions, calls,
                   returns, result, ncalls, seen>>

\* the embedding application calls run_cli with its own options and command
RunCliEnter(m, c) ==
    /\ pc \in {"start", "returned"}
    /\ ncalls < MaxCalls
    /\ pc' = "dispatch"
    /\ via' = "run_cli"
    /\ argv' = NoArgv
    /\ move_args' = m
    /\ cmd' = c
    /\ calls' = <<>>
    /\ returns' = <<>>
    /\ result' = None
    /\ UNCHANGED <<natives, cost_table, error_descriptions, exit, ncalls, seen>>

\* run_cli evaluates the arm of its match up to the collaborator call
RunCliCall ==
    /\ pc = "dispatch"
    /\ calls' = Append(calls, RunCliMatch(natives, cost_table, error_descriptions, move_args, cmd))
    /\ pc' = "collaborator"
    /\ UNCHANGED <<via, argv, natives, cost_table, error_descriptions, move_args,
                   cmd, returns, result, exit, ncalls, seen>>

\* RunCliReturn, a failed collaborator call tried once more
RunCliReturnRetry(r, keep) ==
    /\ pc = "collaborator"
    /\ returns' = Append(returns, r)
    /\ IF r \in Errors /\ Len(calls) < 2
       THEN /\ pc' = "dispatch"
            /\ UNCHANGED <<result, ncalls, seen>>
       ELSE /\ result' = Some(Propagate(r))
            /\ pc' = "returned"
            /\ ncalls' = ncalls + 1
            /\ seen' = IF keep
                       THEN Some([move_args |-> move_args, cmd |-> cmd,
                                  calls |-> calls, result |-> Propagate(r)])
                       ELSE seen
    /\ UNCHANGED <<via, argv, natives, cost_table, error_descriptions, move_args,
                   cmd, calls, exit>>

\* the collaborator returns r and run_cli returns with it; the call may be
\* kept as the earlier call later ones are compared with
RunCliReturn(r, keep) ==
    /\ pc = "collaborator"
    /\ returns' = Append(returns, r)
    /\ result' = Some(Propagate(r))
    /\ pc' = "returned"
    /\ ncalls' = ncalls + 1
    /\ seen' = IF keep
               THEN Some([move_args |-> move_args, cmd |-> cmd,
                          calls |-> calls, result |-> Propagate(r)])
               ELSE seen
    /\ UNCHANGED <<via, argv, natives, cost_table, error_descriptions, move_args,
                   cmd, calls, exit>>

Next ==
    \/ \E a \in ArgVectors : MoveCliEnter(a)
    \/ MoveCliParse
    \/ \E m \in Move, c \in Command : RunCliEnter(m, c)
    \/ RunCliCall
    \/ \E r \in Results, keep \in BOOLEAN : RunCliReturn(r, keep)

Spec == Init /\ [][Next]_vars

TypeOK ==
    /\ pc \in {"start", "parse", "dispatch", "collaborator", "returned", "exited"}
    /\ ncalls \in 0..MaxCalls
    /\ Len(calls) <= 1

----------------------------------------------------------------------------
(* Properties *)

Called == Len(calls) = 1
TheCall == calls[1]
SixExecuteVariants == {"Build", "Coverage", "Disassemble", "Errmap", "Info", "Prove"}
SeenSameInputs ==
    /\ seen # None
    /\ seen[1].move_args = move_args
    /\ seen[1].cmd = cmd

\* C1: one call of run_cli invokes one collaborator entry point once, never
\* none and never a second time (no retry after a failure), and run_cli has
\* returned only when that collaborator has returned.
C1_ExactlyOneCollaborator ==
    /\ Len(calls) <= 1
    /\ Len(returns) <= Len(calls)
    /\ pc = "collaborator" => Len(calls) = 1 /\ Len(returns) = 0
    /\ pc = "returned" => Len(calls) = 1 /\ Len(returns) = 1 /\ result # None
    /\ result # None => pc = "returned"

C1_Witness ==
    /\ pc = "returned"
    /\ returns = <<"Err(sentinel_1)">>
    /\ Len(calls) = 1
    /\ cmd.tag = "Experimental"

\* C2: the result of run_cli is the result the invoked collaborator returned:
\* Ok as Ok, an error as that same error, and no error of run_cli's own.
C2_TransparentResult ==
    pc = "returned" =>
        /\ Len(returns) = 1
        /\ result = Some(returns[1])
        /\ result[1] \in Results

C2_Witness ==
    /\ pc = "returned"
    /\ result = Some("Err(sentinel_2)")
    /\ returns = <<"Err(sentinel_2)">>
    /\ cmd.tag = "Sandbox"

\* C3 as stated: the collaborators of Test and of Sandbox, and no others,
\* are handed the cost table and the error map given to run_cli.
C3_Original ==
    Called =>
        /\ cmd.tag \in {"Test", "Sandbox"} <=>
              {"cost_table", "error_descriptions"} \subseteq DOMAIN TheCall.args
        /\ cmd.tag \in {"Test", "Sandbox"} =>
              /\ TheCall.args.cost_table = cost_table
              /\ TheCall.args.error_descriptions = error_descriptions

\* C3 (amended): the collaborator of Sandbox, and no other (Test included),
\* is handed the cost table and the error map given to run_cli.
C3_CostTableToSandboxOnly ==
    Called =>
        /\ cmd.tag = "Sandbox" <=> "cost_table" \in DOMAIN TheCall.args
        /\ cmd.tag = "Sandbox" <=> "error_descriptions" \in DOMAIN TheCall.args
        /\ cmd.tag # "Sandbox" /\ "move_args" \in DOMAIN TheCall.args =>
              DOMAIN TheCall.args.move_args = {"package_path", "verbose", "build_config"}
        /\ cmd.tag = "Sandbox" =>
              /\ TheCall.args.cost_table = cost_table
              /\ TheCall.args.error_descriptions = error_descriptions

C3_Witness ==
    /\ Called
    /\ cmd.tag = "Sandbox"
    /\ cost_table = "cost_b"
    /\ TheCall.args.cost_table = "cost_b"
    /\ TheCall.args.error_descriptions = "errmap_b"

\* C4: among the eight leaf variants only the collaborator of Test is handed
\* the natives, and it is handed the natives given to run_cli.
C4_NativesToTestOnly ==
    Called /\ cmd.tag \in LeafVariants =>
        /\ cmd.tag = "Test" <=> "natives" \in DOMAIN TheCall.args
        /\ cmd.tag = "Test" => TheCall.args.natives = natives

C4_Witness ==
    /\ Called
    /\ cmd.tag = "Test"
    /\ natives = "natives_b"
    /\ TheCall.args.natives = "natives_b"

\* C5: Command::New calls New::execute_with_defaults with the package_path
\* alone; the build_config is not among the arguments, and two New calls
\* whose inputs differ only in build_config are the same call.
C5_NewWithoutBuildConfig ==
    Called /\ cmd.tag = "New" =>
        /\ TheCall.target = Target("New", "execute_with_defaults")
        /\ DOMAIN TheCall.args = {"package_path"}
        /\ TheCall.args.package_path = move_args.package_path
        /\ /\ seen # None
           /\ seen[1].cmd = cmd
           /\ seen[1].move_args.package_path = move_args.package_path
           /\ seen[1].move_args.verbose = move_args.verbose
           => seen[1].calls = calls

C5_Witness ==
    /\ Called
    /\ cmd.tag = "New"
    /\ seen # None
    /\ seen[1].cmd = cmd
    /\ seen[1].move_args.package_path = move_args.package_path
    /\ seen[1].move_args.verbose = move_args.verbose
    /\ seen[1].move_args.build_config = "default"
    /\ move_args.build_config = "dev"

\* C6: each of Build, Coverage, Disassemble, Errmap, Info and Prove calls the
\* execute of its own type with the package_path and the build_config of the
\* global options; a package_path that was not given stays absent.
C6_ExecuteWithGlobalOptions ==
    Called /\ cmd.tag \in SixExecuteVariants =>
        /\ TheCall.target = Target(cmd.tag, "execute")
        /\ DOMAIN TheCall.args = {"package_path", "build_config"}
        /\ TheCall.args.package_path = move_args.package_path
        /\ TheCall.args.build_config = move_args.build_config
        /\ via = "move_cli" =>
              /\ TheCall.args.package_path = argv.path
              /\ TheCall.args.build_config = argv.build_flags

C6_Witness ==
    /\ Called
    /\ via = "move_cli"
    /\ cmd.tag = "Prove"
    /\ argv.path = None
    /\ argv.build_flags = "dev"
    /\ TheCall.args.package_path = None

\* C7: under move_cli a collaborator is called only after the parse has
\* succeeded; a failed parse ends the process with a failure and without any
\* collaborator call.
C7_NoCollaboratorBeforeParse ==
    /\ pc = "parse" => calls = <<>>
    /\ via = "move_cli" /\ calls # <<>> => Parse(argv).ok /\ pc # "parse"
    /\ via = "move_cli" /\ ~Parse(argv).ok => pc \in {"parse", "exited"}
    /\ pc = "exited" =>
          /\ via = "move_cli"
          /\ ~Parse(argv).ok
          /\ calls = <<>>
          /\ returns = <<>>
          /\ result = None
          /\ exit = "usage_error"
    /\ exit # "running" => pc = "exited"

C7_Witness ==
    /\ pc = "exited"
    /\ argv.subcommand = Some("bogus")
    /\ calls = <<>>
    /\ exit = "usage_error"

\* C8: the sub-dispatcher of sandbox and of experimental is handed the
\* storage_dir of the command; under move_cli that is the --storage-dir
\* given, and "storage" when none was given.
C8_StorageDirResolved ==
    Called /\ cmd.tag \in NestedVariants =>
        /\ "storage_dir" \in DOMAIN TheCall.args
        /\ TheCall.args.storage_dir = cmd.storage_dir
        /\ via = "move_cli" =>
              TheCall.args.storage_dir =
                  IF argv.storage_dir = None THEN "storage" ELSE argv.storage_dir[1]

C8_Witness ==
    /\ Called
    /\ via = "move_cli"
    /\ cmd.tag = "Experimental"
    /\ argv.storage_dir = None
    /\ TheCall.args.storage_dir = "storage"

InRunCli == pc \in {"dispatch", "collaborator", "returned"}

\* a command that reached run_cli is one of n variants with n collaborator
\* types, is the one the subcommand word names, and is routed to its own type
Routed(n) ==
    /\ InRunCli =>
          /\ cmd.tag \in CommandVariants
          /\ Cardinality(CommandVariants) = n
          /\ Cardinality({PayloadType(t) : t \in CommandVariants}) = n
    /\ InRunCli /\ via = "move_cli" => SubcommandName(cmd.tag) = argv.subcommand[1]
    /\ Called => TheCall.target.type = PayloadType(cmd.tag)

\* C9 as stated: Command has nine variants, a parsed invocation is one of
\* them, and each is routed to the collaborator of its own type.
C9_Original == Routed(9)

\* C9 (amended): Command has ten variants (eight leaves, Sandbox and
\* Experimental), a parsed invocation is one of them, and each is routed to
\* the collaborator of its own type.
C9_TenVariantsRouted == Routed(10)

C9_Witness ==
    /\ Called
    /\ via = "move_cli"
    /\ cmd.tag = "Coverage"
    /\ TheCall.target = Target("Coverage", "execute")

====
